---------------------------- MODULE Spec2Model ----------------------------
(***************************************************************************)
(* A model of tinykeys (src/src/tinykeys.ts): the keybinding parser, the   *)
(* press matcher, the event handler built by createKeybindingsHandler and  *)
(* the subscription made by tinykeys.                                      *)
(*                                                                         *)
(* Strings are sequences of one-character strings, so that trim, split,    *)
(* toUpperCase and the regular expressions are computed, not assumed.      *)
(***************************************************************************)
EXTENDS Integers, Sequences, FiniteSets, TLC

VARIABLES
    platform,         \* None when there is no navigator object, else Some(navigator.platform)
    keyBindingMap,    \* the map given by the caller: its keys, in insertion order
    options,          \* the options given by the caller
    keyBindings,      \* createKeybindingsHandler: the parsed bindings, in evaluation order
    possibleMatches,  \* createKeybindingsHandler: Map from a binding's sequence to its remaining presses
    timer,            \* createKeybindingsHandler: the closure's timer handle, Null at first
    activeTimers,     \* the host's pending timeouts: handle -> milliseconds left
    listeners,        \* the target's listeners: the event types onKeyEvent is registered for
    unsubscribed,     \* the function tinykeys returned has been called
    idle,             \* milliseconds since the last qualifying event (saturates at the timeout)
    last,             \* what the last step was and what it did (observation of the run)
    chain,            \* per binding: how many leading presses a run of events may have matched
    streak,           \* per binding: how many presses the last events matched in order from no progress
    solo,             \* per binding: the progress entry of a handler that holds this binding alone
    typed,            \* per binding: the k for which the last k qualifying events matched presses 1..k
    str,              \* a binding string given to parseKeybinding
    ev,               \* an event given to match with the first press of str
    out               \* None, or Some(what match returned for ev and that press)

vars == <<platform, keyBindingMap, options, keyBindings, possibleMatches, timer,
          activeTimers, listeners, unsubscribed, idle, last, chain, streak, solo, typed,
          str, ev, out>>

\* An optional value (undefined or a value) is a sequence of length 0 or 1.
None == <<>>
Some(x) == <<x>>

\* let timer: number | null = null
Null == 0

(***************************************************************************)
(* Strings                                                                 *)
(***************************************************************************)
S_Shift == <<"S", "h", "i", "f", "t">>
S_Meta == <<"M", "e", "t", "a">>
S_Alt == <<"A", "l", "t">>
S_Control == <<"C", "o", "n", "t", "r", "o", "l">>
S_CapsLock == <<"C", "a", "p", "s", "L", "o", "c", "k">>
S_mod == <<"$", "m", "o", "d">>
S_KeyD == <<"K", "e", "y", "D">>
S_Mac == <<"M", "a", "c">>
S_iPod == <<"i", "P", "o", "d">>
S_iPhone == <<"i", "P", "h", "o", "n", "e">>
S_iPad == <<"i", "P", "a", "d">>
S_MacIntel == <<"M", "a", "c", "I", "n", "t", "e", "l">>
S_Win32 == <<"W", "i", "n", "3", "2">>

LowerCase == <<"a", "b", "c", "d", "e", "f", "g", "h", "i", "j", "k", "l", "m",
               "n", "o", "p", "q", "r", "s", "t", "u", "v", "w", "x", "y", "z">>
UpperCase == <<"A", "B", "C", "D", "E", "F", "G", "H", "I", "J", "K", "L", "M",
               "N", "O", "P", "Q", "R", "S", "T", "U", "V", "W", "X", "Y", "Z">>
Digits == <<"0", "1", "2", "3", "4", "5", "6", "7", "8", "9">>

Range(s) == {s[i] : i \in DOMAIN s}

LowerSet == Range(LowerCase)
DigitSet == Range(Digits)
WordSet == LowerSet \cup Range(UpperCase) \cup DigitSet \cup {"_"}
UpperOf == [c \in LowerSet |-> UpperCase[CHOOSE i \in DOMAIN LowerCase : LowerCase[i] = c]]

\* \w of the regular expression /\b\+/
IsWordChar(c) == c \in WordSet

\* String.prototype.toUpperCase, one character
UpperChar(c) == IF c \in LowerSet THEN UpperOf[c] ELSE c

toUpperCase(s) == [i \in DOMAIN s |-> UpperChar(s[i])]

\* String.prototype.trim: the only white space of the alphabet is the space
RECURSIVE trimStart(_)
trimStart(s) == IF s # <<>> /\ Head(s) = " " THEN trimStart(Tail(s)) ELSE s

RECURSIVE trimEnd(_)
trimEnd(s) ==
    IF s # <<>> /\ s[Len(s)] = " " THEN trimEnd(SubSeq(s, 1, Len(s) - 1)) ELSE s

trim(s) == trimEnd(trimStart(s))

\* String.prototype.split(" "): cut at every space; "" gives [""]
RECURSIVE splitSpace(_, _, _)
splitSpace(s, i, cur) ==
    IF i > Len(s) THEN <<cur>>
    ELSE IF s[i] = " " THEN <<cur>> \o splitSpace(s, i + 1, <<>>)
    ELSE splitSpace(s, i + 1, Append(cur, s[i]))

\* split("+"): cut at every "+"
RECURSIVE splitPlusEvery(_, _, _)
splitPlusEvery(s, i, cur) ==
    IF i > Len(s) THEN <<cur>>
    ELSE IF s[i] = "+" THEN <<cur>> \o splitPlusEvery(s, i + 1, <<>>)
    ELSE splitPlusEvery(s, i + 1, Append(cur, s[i]))

\* String.prototype.split(/\b\+/): cut at every "+" that follows a word
\* character ("+" is no word character, so \b holds before it exactly then)
RECURSIVE splitPlus(_, _, _)
splitPlus(s, i, cur) ==
    IF i > Len(s) THEN <<cur>>
    ELSE IF s[i] = "+" /\ i > 1 /\ IsWordChar(s[i - 1])
         THEN <<cur>> \o splitPlus(s, i + 1, <<>>)
    ELSE splitPlus(s, i + 1, Append(cur, s[i]))

\* RegExp.prototype.test for a pattern that is a plain word: pat occurs in s
Contains(s, pat) ==
    \E i \in 1..(Len(s) - Len(pat) + 1) : SubSeq(s, i, i + Len(pat) - 1) = pat

(***************************************************************************)
(* Module constants                                                        *)
(***************************************************************************)
KEYBINDING_MODIFIER_KEYS == <<S_Shift, S_Meta, S_Alt, S_Control>>

DEFAULT_TIMEOUT == 1000

DEFAULT_EVENT == "keydown"

\* MOD without the test of the platform
MODAlwaysControl == S_Control

\* MOD, computed from the platform when the module loads
MOD ==
    IF platform # None
       /\ \E pat \in {S_Mac, S_iPod, S_iPhone, S_iPad} : Contains(platform[1], pat)
    THEN S_Meta
    ELSE S_Control

(***************************************************************************)
(* Events. A keyboard event has a key, a code, a repeat flag and, unless   *)
(* the host leaves it out, a getModifierState function, given here by the  *)
(* set of names it answers true for.                                       *)
(***************************************************************************)
getModifierState(event, mod) ==
    IF event.hasGetModifierState THEN mod \in event.modifierState ELSE FALSE

(***************************************************************************)
(* parseKeybinding. A press is <<mods, key>>: press[1] is the source's     *)
(* press[0] and press[2] its press[1].                                     *)
(***************************************************************************)
parsePress(press) ==
    LET mods == splitPlus(press, 1, <<>>)
        key == mods[Len(mods)]
        rest == SubSeq(mods, 1, Len(mods) - 1)
    IN  <<[i \in DOMAIN rest |-> IF rest[i] = S_mod THEN MOD ELSE rest[i]], key>>

parseKeybinding(s) ==
    LET presses == splitSpace(trim(s), 1, <<>>)
    IN  [i \in DOMAIN presses |-> parsePress(presses[i])]

(***************************************************************************)
(* match                                                                   *)
(***************************************************************************)
\* Array.prototype.find used as a condition: the first element that
\* satisfies the test is returned, and it counts as true unless it is ""
FindsInactive(event, mods) ==
    LET inactive == {i \in DOMAIN mods : ~ getModifierState(event, mods[i])}
    IN  /\ inactive # {}
        /\ mods[CHOOSE i \in inactive : \A j \in inactive : i <= j] # <<>>

\* match without its last test: modifiers held beyond the press are accepted
matchAtLeast(event, press) ==
    ~ (\/ (/\ toUpperCase(press[2]) # toUpperCase(event.key)
           /\ press[2] # event.code)
       \/ FindsInactive(event, press[1]))

\* match whose last test does not spare the press's own key
matchNoExemption(event, press) ==
    ~ (\/ (/\ toUpperCase(press[2]) # toUpperCase(event.key)
           /\ press[2] # event.code)
       \/ FindsInactive(event, press[1])
       \/ \E i \in DOMAIN KEYBINDING_MODIFIER_KEYS :
             LET mod == KEYBINDING_MODIFIER_KEYS[i]
             IN  /\ mod \notin Range(press[1])
                 /\ getModifierState(event, mod))

match(event, press) ==
    ~ (\/ (/\ toUpperCase(press[2]) # toUpperCase(event.key)
           /\ press[2] # event.code)
       \/ FindsInactive(event, press[1])
       \/ \E i \in DOMAIN KEYBINDING_MODIFIER_KEYS :
             LET mod == KEYBINDING_MODIFIER_KEYS[i]
             IN  /\ mod \notin Range(press[1])
                 /\ press[2] # mod
                 /\ getModifierState(event, mod))


(***************************************************************************)
(* Object.keys(keyBindingMap): the keys that are array indices come first, *)
(* in ascending numeric order, then the other keys in insertion order.     *)
(* A key names its entry of keyBindingMap: its callback is its position.   *)
(***************************************************************************)
IsArrayIndex(s) ==
    /\ s # <<>>
    /\ \A i \in DOMAIN s : s[i] \in DigitSet
    /\ (Len(s) = 1 \/ s[1] # "0")
    /\ Len(s) <= 9

RECURSIVE ToNumber(_)
ToNumber(s) ==
    IF s = <<>> THEN 0
    ELSE 10 * ToNumber(SubSeq(s, 1, Len(s) - 1))
         + (CHOOSE d \in 0..9 : Digits[d + 1] = s[Len(s)])

RECURSIVE Ascending(_, _)
Ascending(map, left) ==
    IF left = {} THEN <<>>
    ELSE LET least == CHOOSE i \in left :
                         \A j \in left : ToNumber(map[i]) <= ToNumber(map[j])
         IN  <<least>> \o Ascending(map, left \ {least})

RECURSIVE InOrder(_, _)
InOrder(map, i) ==
    IF i > Len(map) THEN <<>>
    ELSE (IF IsArrayIndex(map[i]) THEN <<>> ELSE <<i>>) \o InOrder(map, i + 1)

ObjectKeys(map) ==
    Ascending(map, {i \in DOMAIN map : IsArrayIndex(map[i])}) \o InOrder(map, 1)

(***************************************************************************)
(* createKeybindingsHandler: the closure's constants                       *)
(***************************************************************************)
\* options.timeout ?? DEFAULT_TIMEOUT
timeout == IF options.timeout = None THEN DEFAULT_TIMEOUT ELSE options.timeout[1]

\* keyBindings: <<parseKeybinding(key), keyBindingMap[key]>> for every key
parseBindings(map) ==
    LET keys == ObjectKeys(map)
    IN  [i \in DOMAIN keys |-> <<parseKeybinding(map[keys[i]]), keys[i]>>]

(***************************************************************************)
(* The Map possibleMatches: the key of a binding is the identity of its    *)
(* sequence array, that is, its position in the list of bindings.          *)
(***************************************************************************)
EmptyMap == [i \in {} |-> <<>>]

MapHas(map, k) == k \in DOMAIN map

MapSet(map, k, v) == [i \in DOMAIN map \cup {k} |-> IF i = k THEN v ELSE map[i]]

MapDelete(map, k) == [i \in DOMAIN map \ {k} |-> map[i]]

(***************************************************************************)
(* The handler returned by createKeybindingsHandler                        *)
(***************************************************************************)
\* ignored without the test of repeat
ignoredNoRepeatTest(event) == ~ event.isKeyboardEvent

\* ignored without the test of options.allowRepeat
ignoredAnyRepeat(event) == ~ event.isKeyboardEvent \/ event.repeat

\* lines 162-168: the events the handler returns on at once
ignored(event) ==
    \/ ~ event.isKeyboardEvent
    \/ (options.allowRepeat # Some(TRUE) /\ event.repeat)

\* line 175: prev ? prev : sequence
remainingExpectedPresses(pm, i, sequence) == IF MapHas(pm, i) THEN pm[i] ELSE sequence

\* onMismatch without the delete
onMismatchKeep(pm, i, event) == pm

\* lines 180-188: the event does not match the expected press
onMismatch(pm, i, event) ==
    IF ~ getModifierState(event, event.key) THEN MapDelete(pm, i) ELSE pm

\* lines 189-190: the event matches and more presses are expected
onAdvance(pm, i, remaining) == MapSet(pm, i, Tail(remaining))

\* onComplete without the delete
onCompleteKeep(pm, i) == pm

\* lines 191-192: the event matches the last press
onComplete(pm, i) == MapDelete(pm, i)

\* lines 170-195: keyBindings.forEach from binding i on. throwing is the set
\* of callbacks that throw when called with this event: a throw leaves the
\* loop and the handler. evaluated lists the callbacks of the bindings the
\* loop has looked at, calls the callbacks it has called.
RECURSIVE forEach(_, _, _, _, _)
forEach(bindings, i, event, throwing, acc) ==
    IF i > Len(bindings) THEN acc
    ELSE
      LET sequence == bindings[i][1]
          callback == bindings[i][2]
          remaining == remainingExpectedPresses(acc.possibleMatches, i, sequence)
          matches == match(event, remaining[1])
          seen == Append(acc.evaluated, callback)
      IN  IF ~ matches THEN
              forEach(bindings, i + 1, event, throwing,
                      [acc EXCEPT !.possibleMatches = onMismatch(@, i, event),
                                  !.evaluated = seen])
          ELSE IF Len(remaining) > 1 THEN
              forEach(bindings, i + 1, event, throwing,
                      [acc EXCEPT !.possibleMatches = onAdvance(@, i, remaining),
                                  !.evaluated = seen])
          ELSE
              LET called == [acc EXCEPT !.possibleMatches = onComplete(@, i),
                                        !.evaluated = seen,
                                        !.calls = Append(@, callback)]
              IN  IF callback \in throwing
                  THEN [called EXCEPT !.thrown = TRUE]
                  ELSE forEach(bindings, i + 1, event, throwing, called)

\* clearTimeout(handle)
clearTimeout(timers, handle) == [h \in DOMAIN timers \ {handle} |-> timers[h]]

\* setTimeout: the handle is an integer greater than zero that names no
\* pending timeout
newHandle(timers) == CHOOSE h \in 1..(Cardinality(DOMAIN timers) + 1) : h \notin DOMAIN timers

\* lines 197-201: cancel the pending timer and start a new one
resetTimer(st) ==
    LET cleared == IF st.timer # Null THEN clearTimeout(st.activeTimers, st.timer)
                   ELSE st.activeTimers
        handle == newHandle(cleared)
    IN  [st EXCEPT !.timer = handle,
                   !.activeTimers = [h \in DOMAIN cleared \cup {handle} |->
                                        IF h = handle THEN timeout ELSE cleared[h]]]

\* the state a call of the handler starts from
Closure ==
    [possibleMatches |-> possibleMatches, timer |-> timer, activeTimers |-> activeTimers,
     evaluated |-> <<>>, calls |-> <<>>, thrown |-> FALSE]

\* lines 158-202: one call of the handler
onKeyEvent(event, throwing) ==
    IF ignored(event) THEN Closure
    ELSE LET looped == forEach(keyBindings, 1, event, throwing, Closure)
         IN  IF looped.thrown THEN looped ELSE resetTimer(looped)


(***************************************************************************)
(* tinykeys: subscribe, and the function it returns                        *)
(***************************************************************************)
\* options.event ?? DEFAULT_EVENT
eventType == IF options.event = None THEN DEFAULT_EVENT ELSE options.event[1]

\* target.addEventListener(event, onKeyEvent)
addEventListener(set, type) == set \cup {type}

\* target.removeEventListener(event, onKeyEvent)
removeEventListener(set, type) == set \ {type}

\* unsubscribe removing the listener of the default event type
unsubscribeDefaultEvent(set) == removeEventListener(set, DEFAULT_EVENT)

\* lines 237-239: the function tinykeys returns
unsubscribe(set) == removeEventListener(set, eventType)

(***************************************************************************)
(* Bounds: the inputs the model draws                                      *)
(***************************************************************************)
\* the timeout a caller sets, in milliseconds
ShortTimeout == 2

\* at most this many of the Scenarios are drawn
MaxScenarios == 7

C(c) == <<c>>
Join(a, b) == a \o <<"+">> \o b
Words(a, b) == a \o <<" ">> \o b

B_yeet == Words(Words(Words(C("y"), C("e")), C("e")), C("t"))
B_Shift_d == Join(S_Shift, C("d"))
B_mod_d == Join(S_mod, C("d"))

DefaultOptions == [timeout |-> None, allowRepeat |-> None, event |-> None]
RepeatOptions ==
    [timeout |-> Some(ShortTimeout), allowRepeat |-> Some(TRUE), event |-> Some("keyup")]
ShortOptions ==
    [timeout |-> Some(ShortTimeout), allowRepeat |-> Some(FALSE), event |-> None]

Scenario(p, m, o) == [platform |-> p, keyBindingMap |-> m, options |-> o]

\* the platform, the map of the caller (its keys in insertion order) and
\* the options of the caller
Scenarios ==
    <<
       Scenario(Some(S_Win32), <<B_yeet, C("y")>>, DefaultOptions),
       Scenario(Some(S_MacIntel), <<B_Shift_d, B_mod_d, C("d")>>, RepeatOptions),
       Scenario(None, <<Words(C("y"), C("e")), C("e"), <<" ">> \o C("e")>>, ShortOptions),
       Scenario(Some(S_Win32), <<C("e"), C("1")>>, RepeatOptions),
       Scenario(Some(S_Win32),
                <<Words(Join(S_Control, C("y")), Join(S_Control, C("e"))),
                  Join(S_Shift, S_Control)>>, ShortOptions),
       Scenario(Some(S_Win32), <<B_mod_d, B_yeet>>, RepeatOptions),
       Scenario(Some(S_MacIntel), <<Words(C("t"), C("t")), Words(C("t"), C("1"))>>,
                DefaultOptions),
       Scenario(Some(S_iPhone), <<Words(B_mod_d, C("d")), S_Shift>>, ShortOptions)
    >>

EventTypes == {"keydown", "keyup"}

\* event.code on a keyboard whose keys are labelled as they are named
CodeOf(key) ==
    IF key = S_Shift THEN S_Shift \o <<"L", "e", "f", "t">>
    ELSE IF key = S_Control THEN S_Control \o <<"L", "e", "f", "t">>
    ELSE IF key[1] \in DigitSet THEN <<"D", "i", "g", "i", "t">> \o key
    ELSE <<"K", "e", "y">> \o toUpperCase(key)

HandlerKeys == {C("y"), C("e"), C("t"), C("d"), C("1"), S_Shift, S_Control}

HandlerModifierStates == {{}, {S_Shift}, {S_Control}, {S_Meta}}

\* an Event that is no KeyboardEvent: the handler reads none of its fields
PlainEvent ==
    [isKeyboardEvent |-> FALSE, key |-> <<>>, code |-> <<>>, repeat |-> FALSE,
     hasGetModifierState |-> FALSE, modifierState |-> {}]

KeyboardEvent(key, code, repeat, has, state) ==
    [isKeyboardEvent |-> TRUE, key |-> key, code |-> code, repeat |-> repeat,
     hasGetModifierState |-> has, modifierState |-> state]

\* the events dispatched on the target
Events ==
    {PlainEvent}
    \cup {KeyboardEvent(k, CodeOf(k), r, TRUE, m) :
             k \in HandlerKeys, r \in BOOLEAN, m \in HandlerModifierStates}
    \cup {KeyboardEvent(k, CodeOf(k), FALSE, FALSE, {}) : k \in HandlerKeys}


(***************************************************************************)
(* Observation of a run. These definitions read the program's state and    *)
(* the event; the program reads none of them.                              *)
(***************************************************************************)
Bindings == DOMAIN keyBindings
SequenceOf(i) == keyBindings[i][1]
CallbackOf(i) == keyBindings[i][2]

\* the event is one the handler is to act on
Qualifying(event) ==
    event.isKeyboardEvent /\ (options.allowRepeat = Some(TRUE) \/ ~ event.repeat)

\* the event is the keydown of a modifier: its own key is active on it
ModifierKeydown(event) ==
    event.hasGetModifierState /\ event.key \in event.modifierState

\* the presses of binding i the event matches
MatchedPresses(i, event) ==
    {j \in DOMAIN SequenceOf(i) : match(event, SequenceOf(i)[j])}

\* the bindings the event completes from the table pm
Completing(pm, event) ==
    {i \in Bindings :
        LET remaining == IF i \in DOMAIN pm THEN pm[i] ELSE SequenceOf(i)
        IN  Len(remaining) = 1 /\ match(event, remaining[1])}

\* chain[i] holds k when presses 1..k of binding i were matched, in order,
\* by events of the run, no timer fired since the first of them, and every
\* other qualifying event since matched the press then expected or was a
\* modifier keydown
ChainAfter(i, event) ==
    LET matched == MatchedPresses(i, event)
    IN  {0}
        \cup {k + 1 : k \in {c \in chain[i] : c + 1 < Len(SequenceOf(i)) /\ c + 1 \in matched}}
        \cup {k \in chain[i] : k >= 1 /\ (ModifierKeydown(event) \/ k + 1 \in matched)}

\* a call of the callback of binding i on the event has the run the
\* binding asks for behind it
Justified(i, event) ==
    /\ Len(SequenceOf(i)) - 1 \in chain[i]
    /\ match(event, SequenceOf(i)[Len(SequenceOf(i))])

\* streak[i] is k when the last k qualifying events matched presses 1..k of
\* binding i in order, the first of them met no progress entry of i, and
\* no timer fired since
StreakAfter(i, event) ==
    LET k == streak[i]
        n == Len(SequenceOf(i))
    IN  IF 0 < k /\ k < n /\ match(event, SequenceOf(i)[k + 1]) THEN k + 1
        ELSE IF ~ MapHas(possibleMatches, i) /\ match(event, SequenceOf(i)[1]) THEN 1
        ELSE 0

\* the handler made of binding i alone, called with the same event
SoloAfter(i, event, throwing) ==
    IF ignored(event) THEN [Closure EXCEPT !.possibleMatches = solo[i]]
    ELSE forEach(<<keyBindings[i]>>, 1, event, throwing,
                 [Closure EXCEPT !.possibleMatches = solo[i]])

\* typed[i] holds k when the last k qualifying events matched presses 1..k
\* of binding i in order and no timer fired since the first of them
TypedAfter(i, event) ==
    {k + 1 : k \in {c \in typed[i] \cup {0} :
                       c < Len(SequenceOf(i)) /\ match(event, SequenceOf(i)[c + 1])}}

\* the bindings whose expected press in the table pm the event does not match
Mismatched(pm, event) ==
    {i \in Bindings : ~ match(event, remainingExpectedPresses(pm, i, SequenceOf(i))[1])}

Quiet ==
    [kind |-> "init", delivered |-> FALSE, qualifying |-> FALSE,
     evaluated |-> <<>>, calls |-> <<>>, thrown |-> FALSE, unjustified |-> {},
     completing |-> {}, soloCalls |-> {}, subscribed |-> FALSE, repeat |-> FALSE,
     mismatched |-> {}, modifierKeydown |-> FALSE]

Min(a, b) == IF a <= b THEN a ELSE b

(***************************************************************************)
(* The specification of the handler and its subscription                   *)
(***************************************************************************)
NoMatchInput ==
    /\ str = <<>>
    /\ ev = PlainEvent
    /\ out = None

Init ==
    /\ \E n \in 1..Min(MaxScenarios, Len(Scenarios)) :
          /\ platform = Scenarios[n].platform
          /\ keyBindingMap = Scenarios[n].keyBindingMap
          /\ options = Scenarios[n].options
    /\ keyBindings = parseBindings(keyBindingMap)
    /\ possibleMatches = EmptyMap
    /\ timer = Null
    /\ activeTimers = EmptyMap
    /\ listeners = addEventListener({}, eventType)
    /\ unsubscribed = FALSE
    /\ idle = timeout
    /\ last = Quiet
    /\ chain = [i \in DOMAIN keyBindings |-> {0}]
    /\ streak = [i \in DOMAIN keyBindings |-> 0]
    /\ solo = [i \in DOMAIN keyBindings |-> EmptyMap]
    /\ typed = [i \in DOMAIN keyBindings |-> {}]
    /\ NoMatchInput

\* the target dispatches an event of a type the handler listens for
Dispatch(event, throwing) ==
    LET acts == Qualifying(event)
        after == onKeyEvent(event, throwing)
        alone == [i \in Bindings |-> SoloAfter(i, event, throwing)]
    IN  /\ listeners # {}
        /\ possibleMatches' = after.possibleMatches
        /\ timer' = after.timer
        /\ activeTimers' = after.activeTimers
        /\ idle' = IF acts THEN 0 ELSE idle
        /\ chain' = [i \in Bindings |-> IF acts THEN ChainAfter(i, event) ELSE chain[i]]
        /\ streak' = [i \in Bindings |-> IF acts THEN StreakAfter(i, event) ELSE streak[i]]
        /\ solo' = [i \in Bindings |-> alone[i].possibleMatches]
        /\ typed' = [i \in Bindings |-> IF acts THEN TypedAfter(i, event) ELSE typed[i]]
        /\ last' = [kind |-> "event", delivered |-> TRUE, qualifying |-> acts,
                    evaluated |-> after.evaluated,
                    calls |-> after.calls,
                    thrown |-> after.thrown,
                    unjustified |-> {i \in Bindings : /\ CallbackOf(i) \in Range(after.calls)
                                                      /\ ~ Justified(i, event)},
                    completing |-> IF acts THEN Completing(possibleMatches, event) ELSE {},
                    soloCalls |-> {i \in Bindings : alone[i].calls # <<>>},
                    subscribed |-> TRUE,
                    repeat |-> event.isKeyboardEvent /\ event.repeat,
                    mismatched |-> IF acts THEN Mismatched(possibleMatches, event) ELSE {},
                    modifierKeydown |-> acts /\ ModifierKeydown(event)]
        /\ UNCHANGED <<platform, keyBindingMap, options, keyBindings, listeners, unsubscribed,
                       str, ev, out>>

\* the target dispatches an event of a type nothing listens for
DispatchUnheard ==
    /\ \E type \in EventTypes : type \notin listeners
    /\ last' = [Quiet EXCEPT !.kind = "event", !.subscribed = listeners # {}]
    /\ UNCHANGED <<platform, keyBindingMap, options, keyBindings, possibleMatches, timer,
                   activeTimers, listeners, unsubscribed, idle, chain, streak, solo, typed,
                   str, ev, out>>

\* a pending timeout is due: possibleMatches.clear()
TimerFires(handle) ==
    /\ handle \in DOMAIN activeTimers
    /\ activeTimers[handle] = 0
    /\ possibleMatches' = EmptyMap
    /\ activeTimers' = clearTimeout(activeTimers, handle)
    /\ chain' = [i \in Bindings |-> {0}]
    /\ streak' = [i \in Bindings |-> 0]
    /\ solo' = [i \in Bindings |-> EmptyMap]
    /\ typed' = [i \in Bindings |-> {}]
    /\ last' = [Quiet EXCEPT !.kind = "timer", !.subscribed = listeners # {}]
    /\ UNCHANGED <<platform, keyBindingMap, options, keyBindings, timer, listeners,
                   unsubscribed, idle, str, ev, out>>

\* the longest time that can pass before a timeout is due, or before idle
\* saturates when none is pending
Horizon ==
    IF DOMAIN activeTimers # {}
    THEN CHOOSE d \in {activeTimers[h] : h \in DOMAIN activeTimers} :
            \A h \in DOMAIN activeTimers : d <= activeTimers[h]
    ELSE timeout - idle

\* d milliseconds pass, and no timeout is overdue
Tick(d) ==
    /\ 1 <= d
    /\ d <= Horizon
    /\ activeTimers' = [h \in DOMAIN activeTimers |-> activeTimers[h] - d]
    /\ idle' = Min(idle + d, timeout)
    /\ last' = [Quiet EXCEPT !.kind = "tick", !.subscribed = listeners # {}]
    /\ UNCHANGED <<platform, keyBindingMap, options, keyBindings, possibleMatches, timer,
                   listeners, unsubscribed, chain, streak, solo, typed, str, ev, out>>

\* the caller calls the function tinykeys returned
Unsubscribe ==
    /\ listeners' = unsubscribe(listeners)
    /\ unsubscribed' = TRUE
    /\ last' = [Quiet EXCEPT !.kind = "unsubscribe", !.subscribed = listeners # {}]
    /\ UNCHANGED <<platform, keyBindingMap, options, keyBindings, possibleMatches, timer,
                   activeTimers, idle, chain, streak, solo, typed, str, ev, out>>

\* the callbacks that may throw on the event: a throw is seen only from a
\* callback the handler calls
Throwing(event) == {{}} \cup {{c} : c \in Range(onKeyEvent(event, {}).calls)}

Next ==
    \/ \E event \in Events : \E throwing \in Throwing(event) : Dispatch(event, throwing)
    \/ DispatchUnheard
    \/ \E handle \in DOMAIN activeTimers : TimerFires(handle)
    \/ \E d \in {timeout \div 2, Horizon} : Tick(d)
    \/ Unsubscribe

Spec == Init /\ [][Next]_vars

\* the runs in which no callback throws
QuietNext ==
    \/ \E event \in Events : Dispatch(event, {})
    \/ DispatchUnheard
    \/ \E handle \in DOMAIN activeTimers : TimerFires(handle)
    \/ \E d \in {timeout \div 2, Horizon} : Tick(d)
    \/ Unsubscribe

QuietSpec == Init /\ [][QuietNext]_vars


(***************************************************************************)
(* The specification of the pure functions: a binding string is parsed     *)
(* and its first press matched against an event                            *)
(***************************************************************************)
Platforms == {None, Some(S_MacIntel), Some(S_Win32)}

ModifierLists ==
    {<<>>}
    \cup {<<a>> : a \in Range(KEYBINDING_MODIFIER_KEYS)}
    \cup {<<a, b>> : a, b \in Range(KEYBINDING_MODIFIER_KEYS)}
    \cup {<<S_Shift, S_Meta, S_Alt, S_Control>>, <<S_CapsLock>>, <<S_Shift, S_CapsLock>>,
          <<S_mod>>, <<S_mod, S_Shift>>}

ChordKeys == {C("d"), C("D"), S_Control, <<"s", "h", "i", "f", "t">>, S_KeyD}

RECURSIVE JoinAll(_, _)
JoinAll(mods, key) == IF mods = <<>> THEN key ELSE Join(Head(mods), JoinAll(Tail(mods), key))

ChordStrings == {JoinAll(mods, key) : mods \in ModifierLists, key \in ChordKeys}

\* binding strings of several presses, with spaces around and between them,
\* with "+" as a key, and with nothing in them
ShapeStrings ==
    {<<>>, <<" ">>, <<"+">>, <<"d", "+">>, <<" ", "d", " ">>, B_yeet,
     Join(S_Control, C("+")),
     Words(Join(S_Shift, C("d")), Join(S_mod, C("e"))),
     Words(C("y"), <<>>) \o <<" ">> \o C("e"),
     Join(S_mod, S_mod),
     Join(C("+"), C("d")),
     <<" ", " ">> \o Words(Join(S_Control, C("+")), JoinAll(<<S_mod, S_Shift>>, C("d")))
          \o <<" ", " ">> \o C("y") \o <<" ">>}

MatchEvents ==
    {KeyboardEvent(k, c, FALSE, TRUE, m) :
        k \in {C("d"), C("D"), C("x"), S_Control, S_Shift},
        c \in {S_KeyD, CodeOf(C("x"))},
        m \in SUBSET (Range(KEYBINDING_MODIFIER_KEYS) \cup {S_CapsLock})}
    \cup {KeyboardEvent(k, c, FALSE, FALSE, {}) :
             k \in {C("d"), C("D"), C("x"), S_Control, S_Shift},
             c \in {S_KeyD, CodeOf(C("x"))}}

MatchInit ==
    /\ platform \in Platforms
    /\ str \in ChordStrings
    /\ ev \in MatchEvents
    /\ out = None
    /\ keyBindingMap = <<>>
    /\ options = DefaultOptions
    /\ keyBindings = <<>>
    /\ possibleMatches = EmptyMap
    /\ timer = Null
    /\ activeTimers = EmptyMap
    /\ listeners = {}
    /\ unsubscribed = FALSE
    /\ idle = 0
    /\ last = Quiet
    /\ chain = <<>>
    /\ streak = <<>>
    /\ solo = <<>>
    /\ typed = <<>>

\* match(ev, parseKeybinding(str)[0])
ApplyMatch ==
    /\ out = None
    /\ out' = Some(match(ev, parseKeybinding(str)[1]))
    /\ UNCHANGED <<platform, keyBindingMap, options, keyBindings, possibleMatches, timer,
                   activeTimers, listeners, unsubscribed, idle, last, chain, streak, solo,
                   typed, str, ev>>

MatchNext == ApplyMatch

MatchSpec == MatchInit /\ [][MatchNext]_vars

(***************************************************************************)
(* The specification of the parser: a binding string is parsed on a        *)
(* platform, and out holds what parseKeybinding returned                   *)
(***************************************************************************)
ParsePlatforms == Platforms \cup {Some(S_iPhone), Some(S_iPad), Some(S_iPod)}

ParseInit ==
    /\ platform \in ParsePlatforms
    /\ str \in ChordStrings \cup ShapeStrings
    /\ ev = PlainEvent
    /\ out = None
    /\ keyBindingMap = <<>>
    /\ options = DefaultOptions
    /\ keyBindings = <<>>
    /\ possibleMatches = EmptyMap
    /\ timer = Null
    /\ activeTimers = EmptyMap
    /\ listeners = {}
    /\ unsubscribed = FALSE
    /\ idle = 0
    /\ last = Quiet
    /\ chain = <<>>
    /\ streak = <<>>
    /\ solo = <<>>
    /\ typed = <<>>

\* parseKeybinding(str)
ApplyParse ==
    /\ out = None
    /\ out' = Some(parseKeybinding(str))
    /\ UNCHANGED <<platform, keyBindingMap, options, keyBindings, possibleMatches, timer,
                   activeTimers, listeners, unsubscribed, idle, last, chain, streak, solo,
                   typed, str, ev>>

ParseNext == ApplyParse

ParseSpec == ParseInit /\ [][ParseNext]_vars


(***************************************************************************)
(* The claims                                                              *)
(***************************************************************************)
Chord == parseKeybinding(str)[1]
Required == Range(Chord[1])
FourModifiers == Range(KEYBINDING_MODIFIER_KEYS)
Held == IF ev.hasGetModifierState THEN ev.modifierState \cap FourModifiers ELSE {}
KeyOrCode == toUpperCase(Chord[2]) = toUpperCase(ev.key) \/ Chord[2] = ev.code
IsChordCase ==
    /\ out # None
    /\ Len(parseKeybinding(str)) = 1
    /\ Required # {}
    /\ Required \subseteq FourModifiers
    /\ KeyOrCode

\* C1 as stated: a chord with a non-empty set M of modifiers out of Shift,
\* Meta, Alt and Control, whose key or code is the event's, matches when
\* the held modifiers are exactly M, and does not match when they are a
\* strict superset or a strict subset of M.
C1_ExactModifierSet ==
    IsChordCase =>
        /\ (Held = Required => out = Some(TRUE))
        /\ (Required \subseteq Held /\ Held # Required => out = Some(FALSE))
        /\ (Held \subseteq Required /\ Held # Required => out = Some(FALSE))

\* C1 as amended: such a chord matches exactly when every modifier of M is held and every
\* held modifier is in M or is the primary key itself; so it matches when
\* the held set is M, not when it is a strict subset, and not when it is a
\* strict superset unless the one extra modifier is the primary key.
C1_ExactModifierSetButKey ==
    IsChordCase =>
        (out = Some(TRUE) <=> (Required \subseteq Held /\ Held \subseteq Required \cup {Chord[2]}))

\* C1, its case: "Shift+d" on an event of d with Shift and Control held: no match
C1_Witness ==
    /\ IsChordCase
    /\ Required = {S_Shift}
    /\ Chord[2] = C("d")
    /\ Held = {S_Shift, S_Control}
    /\ out = Some(FALSE)

\* C2: a callback is called on an event only if the event matches the last
\* press of its binding and the presses before it were matched in order by
\* earlier qualifying events, with no timer firing and no qualifying event
\* that neither matched nor was a modifier keydown in between.
C2_CalledOnlyAfterInOrderMatch ==
    last.kind = "event" => (last.calls # <<>> => last.qualifying) /\ last.unjustified = {}

\* C2, its case: the callback of a binding of three presses or more has
\* been called
C2_Witness ==
    /\ last.kind = "event"
    /\ \E i \in Bindings : Len(SequenceOf(i)) >= 3 /\ CallbackOf(i) \in Range(last.calls)

Count(seq, x) == Cardinality({j \in DOMAIN seq : seq[j] = x})

\* C3: from no progress entry, N qualifying events matching presses 1..N in
\* order, with no timer firing, advance the entry by one press each, call
\* the callback once, on the N-th, and leave no entry.
C3_CompletionOnce ==
    \A i \in Bindings :
        LET k == streak[i]
            n == Len(SequenceOf(i))
            now == last.kind = "event" /\ last.qualifying
        IN  /\ (0 < k /\ k < n) =>
                /\ MapHas(possibleMatches, i)
                /\ possibleMatches[i] = SubSeq(SequenceOf(i), k + 1, n)
                /\ (now => Count(last.calls, CallbackOf(i)) = 0)
            /\ k = n =>
                /\ ~ MapHas(possibleMatches, i)
                /\ (now => Count(last.calls, CallbackOf(i)) = 1)

\* C4: once the timeout has passed since the last qualifying event and no
\* due timer is still to fire, no binding has a progress entry.
C4_AbandonedAfterTimeout ==
    (idle >= timeout /\ \A h \in DOMAIN activeTimers : activeTimers[h] > 0)
        => possibleMatches = EmptyMap

\* C5: the progress entry of every binding, and whether its callback was
\* called by the last event, are those of the handler that holds the
\* binding alone and saw the same events and timer firings.
C5_Independence ==
    /\ \A i \in Bindings :
          /\ MapHas(possibleMatches, i) <=> MapHas(solo[i], 1)
          /\ MapHas(possibleMatches, i) => possibleMatches[i] = solo[i][1]
    /\ last.kind = "event" =>
          last.soloCalls = {i \in Bindings : CallbackOf(i) \in Range(last.calls)}

\* C6: an event that does not qualify (no keyboard event, or a repeat while
\* allowRepeat is not true) calls no callback and leaves the progress
\* table, the timer handle and the pending timeout as they were.
C6_IgnoredEventChangesNothing ==
    [][(last'.kind = "event" /\ last'.delivered /\ ~ last'.qualifying) =>
          /\ possibleMatches' = possibleMatches
          /\ timer' = timer
          /\ activeTimers' = activeTimers
          /\ last'.calls = <<>>]_vars

\* C6, its case: a repeat was ignored while progress was held and a timeout was pending
C6_Witness ==
    /\ last.kind = "event" /\ last.delivered /\ last.repeat /\ ~ last.qualifying
    /\ options.allowRepeat # Some(TRUE)
    /\ possibleMatches # EmptyMap
    /\ \E h \in DOMAIN activeTimers : 0 < activeTimers[h] /\ activeTimers[h] < timeout

\* C7: with allowRepeat true, the handler does to every event what it does
\* to the same event with repeat false.
C7_RepeatIrrelevant ==
    options.allowRepeat = Some(TRUE) =>
        \A event \in Events : \A throwing \in Throwing(event) :
            onKeyEvent(event, throwing) = onKeyEvent([event EXCEPT !.repeat = FALSE], throwing)

\* C7, its case: with allowRepeat true a repeat event has completed a binding
C7_Witness ==
    /\ options.allowRepeat = Some(TRUE)
    /\ last.kind = "event" /\ last.repeat /\ last.qualifying
    /\ last.calls # <<>>

\* C8: once unsubscribe has been called, no event calls a callback or
\* changes the progress table, and a further call of unsubscribe changes
\* nothing.
C8_UnsubscribeStops ==
    [][unsubscribed =>
          /\ (last'.kind = "event" =>
                 /\ last'.calls = <<>>
                 /\ possibleMatches' = possibleMatches
                 /\ timer' = timer
                 /\ activeTimers' = activeTimers)
          /\ (last'.kind = "unsubscribe" =>
                 /\ listeners' = listeners
                 /\ possibleMatches' = possibleMatches
                 /\ timer' = timer
                 /\ activeTimers' = activeTimers)]_vars

\* C8, its case: unsubscribe has been called a second time, with progress
\* in flight
C8_Witness ==
    /\ unsubscribed
    /\ last.kind = "unsubscribe" /\ ~ last.subscribed
    /\ possibleMatches # EmptyMap

\* C9: after unsubscribe no timer is pending.
C9_TeardownCancelsTimer == unsubscribed => activeTimers = EmptyMap

RECURSIVE SortedSeq(_)
SortedSeq(set) ==
    IF set = {} THEN <<>>
    ELSE LET least == CHOOSE x \in set : \A y \in set : x <= y
         IN  <<least>> \o SortedSeq(set \ {least})

\* C10: on every qualifying event every binding is evaluated once, in
\* registration order, and the callbacks of all the bindings the event
\* completes are called, in registration order.
C10_AllBindingsInRegistrationOrder ==
    (last.kind = "event" /\ last.delivered /\ last.qualifying) =>
        /\ last.evaluated = [i \in 1..Len(keyBindingMap) |-> i]
        /\ last.calls = SortedSeq({CallbackOf(i) : i \in last.completing})

(***************************************************************************)
(* The binding string read by its grammar: presses separated by single     *)
(* spaces, and within a press segments separated by each "+" that stands   *)
(* right after a word character.                                           *)
(***************************************************************************)
\* the pieces of s between the places in cuts
Pieces(s, cuts) ==
    LET c == SortedSeq(cuts)
        n == Len(c)
    IN  [j \in 1..(n + 1) |->
            SubSeq(s, (IF j = 1 THEN 0 ELSE c[j - 1]) + 1,
                      (IF j = n + 1 THEN Len(s) + 1 ELSE c[j]) - 1)]

\* s from its first to its last character that is no space
Trimmed(s) ==
    LET solid == {p \in DOMAIN s : s[p] # " "}
    IN  IF solid = {} THEN <<>>
        ELSE SubSeq(s, CHOOSE p \in solid : \A q \in solid : p <= q,
                       CHOOSE p \in solid : \A q \in solid : q <= p)

Tokens(s) ==
    LET t == Trimmed(s)
    IN  Pieces(t, {p \in DOMAIN t : t[p] = " "})

Segments(t) == Pieces(t, {p \in 2..Len(t) : t[p] = "+" /\ IsWordChar(t[p - 1])})

\* the platform is of the Apple family
ApplePlatform == platform \in {Some(S_MacIntel), Some(S_iPhone), Some(S_iPad), Some(S_iPod)}

\* what the alias $mod stands for on the platform
AliasName == IF ApplePlatform THEN S_Meta ELSE S_Control

Resolved(segment) == IF segment = S_mod THEN AliasName ELSE segment

\* the token with every modifier segment $mod written out
RECURSIVE WrittenOut(_)
WrittenOut(segments) ==
    IF Len(segments) = 1 THEN segments[1]
    ELSE Join(Resolved(Head(segments)), WrittenOut(Tail(segments)))

\* the binding string with every modifier $mod written out
RECURSIVE Rejoined(_)
Rejoined(grammar) ==
    IF Len(grammar) = 1 THEN WrittenOut(grammar[1])
    ELSE Words(WrittenOut(Head(grammar)), Rejoined(Tail(grammar)))

\* the segments of every token of the binding string
Grammar(s) ==
    LET tokens == Tokens(s)
    IN  [i \in DOMAIN tokens |-> Segments(tokens[i])]

\* C11: parsing replaces every modifier $mod by Meta on an Apple platform
\* and by Control on any other, and changes no other modifier and no key:
\* the binding parses to what the binding with the alias written out parses
\* to, and so its presses match the same events.
C11_AliasResolved ==
    out # None =>
        LET parsed == out[1]
            grammar == Grammar(str)
            written == parseKeybinding(Rejoined(grammar))
        IN  /\ parsed = written
            /\ \A i \in DOMAIN parsed :
                  LET segments == grammar[i]
                  IN  /\ parsed[i][2] = segments[Len(parsed[i][1]) + 1]
                      /\ \A j \in DOMAIN parsed[i][1] :
                            parsed[i][1][j] = Resolved(segments[j])
            /\ \A event \in MatchEvents :
                  match(event, parsed[1]) = match(event, written[1])

\* C11, its case: "$mod+d" parsed on an Apple platform asks for Meta
C11_Witness ==
    /\ str = B_mod_d
    /\ platform = Some(S_iPhone)
    /\ out = Some(<<<<<<S_Meta>>, C("d")>>>>)

\* the modifier is active on the event given to match
Active(m) == ev.hasGetModifierState /\ m \in ev.modifierState

\* C16: match accepts exactly when (1) the key of the press is the event's
\* key whatever the case, or its code, (2) every modifier of the press is
\* active, and (3) no modifier out of Shift, Meta, Alt and Control is active
\* that is neither a modifier of the press nor its key.
C16_ThreeStepReference ==
    out # None =>
        (out = Some(TRUE) <=>
            /\ KeyOrCode
            /\ \A m \in Required : Active(m)
            /\ ~ \E m \in FourModifiers : Active(m) /\ m \notin Required /\ m # Chord[2])

\* C16, its case: "Shift+Control" is matched by the keydown of Control with
\* Shift held
C16_Witness ==
    /\ Chord = <<<<S_Shift>>, S_Control>>
    /\ ev.key = S_Control
    /\ Held = {S_Shift, S_Control}
    /\ out = Some(TRUE)

\* C18: parsing gives one press for every token of the trimmed string, in
\* order, and so at least one; the key of a press is the token's segment
\* after its last separating "+", as written, and its modifiers are the
\* segments before it.
C18_ParserShape ==
    out # None =>
        LET parsed == out[1]
            grammar == Grammar(str)
        IN  /\ Len(parsed) >= 1
            /\ Len(parsed) = Len(grammar)
            /\ \A i \in DOMAIN parsed :
                  LET segments == grammar[i]
                      n == Len(segments)
                  IN  /\ parsed[i][2] = segments[n]
                      /\ parsed[i][1] = [j \in 1..(n - 1) |-> Resolved(segments[j])]

\* C18, its case: a string with spaces around it and two spaces in a row,
\* a press whose key is "+", and a press of two modifiers
C18_Witness ==
    /\ out # None
    /\ str # <<>> /\ str[1] = " " /\ str[Len(str)] = " "
    /\ Len(out[1]) = 4
    /\ out[1][1] = <<<<S_Control>>, C("+")>>
    /\ Len(out[1][2][1]) = 2
    /\ out[1][3] = <<<<>>, <<>>>>

\* the progress entry of binding i in the table pm, if any
Entry(pm, i) == IF MapHas(pm, i) THEN Some(pm[i]) ELSE None

\* C12: a qualifying event that does not match the press a binding expects
\* leaves the binding's progress entry as it was when the event's own key
\* is a modifier active on it, removes the entry in every other case, and
\* in neither case calls the binding's callback.
C12_MismatchKeepsOrRemoves ==
    [][(last'.kind = "event" /\ last'.qualifying) =>
          \A i \in last'.mismatched :
              /\ CallbackOf(i) \notin Range(last'.calls)
              /\ IF last'.modifierKeydown
                 THEN Entry(possibleMatches', i) = Entry(possibleMatches, i)
                 ELSE ~ MapHas(possibleMatches', i)]_vars

\* C13: every entry of the progress table is a suffix of its binding's
\* sequence, not empty and shorter than the sequence, and no binding whose
\* callback the last step called has an entry.
C13_ProgressTableInvariant ==
    /\ \A i \in DOMAIN possibleMatches :
          /\ i \in Bindings
          /\ LET n == Len(SequenceOf(i))
                 m == Len(possibleMatches[i])
             IN  /\ 1 <= m
                 /\ m < n
                 /\ possibleMatches[i] = SubSeq(SequenceOf(i), n - m + 1, n)
    /\ last.kind = "event" =>
          \A i \in Bindings :
              CallbackOf(i) \in Range(last.calls) => ~ MapHas(possibleMatches, i)

\* C13, its case: an event has completed a binding of several presses
\* while another binding holds progress
C13_Witness ==
    /\ last.kind = "event"
    /\ \E i \in Bindings : Len(SequenceOf(i)) > 1 /\ CallbackOf(i) \in Range(last.calls)
    /\ possibleMatches # EmptyMap

\* C14: at most one timer is pending, and after every qualifying event the
\* one pending timer is the handler's, due timeout milliseconds later.
C14_SingleTimerRescheduled ==
    /\ Cardinality(DOMAIN activeTimers) <= 1
    /\ (last.kind = "event" /\ last.qualifying) =>
          /\ timer # Null
          /\ DOMAIN activeTimers = {timer}
          /\ activeTimers[timer] = timeout

\* C15: the timer clears the progress table only when the timeout has
\* passed since the last qualifying event.
C15_DeadlineBetweenPresses == last.kind = "timer" => idle >= timeout

\* C17: on an event without getModifierState no modifier is active, a
\* press with modifiers does not match and a press without modifiers
\* matches by key or code alone; and such an event, when the press a
\* binding expects does not match it, leaves no progress entry of the
\* binding.
C17_NoQueryNoModifier ==
    \A event \in {e \in Events : Qualifying(e) /\ ~ e.hasGetModifierState} :
        /\ \A m \in Range(KEYBINDING_MODIFIER_KEYS) \cup {event.key} :
              ~ getModifierState(event, m)
        /\ \A i \in Bindings : \A j \in DOMAIN SequenceOf(i) :
              LET press == SequenceOf(i)[j]
              IN  match(event, press) <=>
                      /\ press[1] = <<>>
                      /\ (toUpperCase(press[2]) = toUpperCase(event.key)
                             \/ press[2] = event.code)
        /\ \A throwing \in Throwing(event) :
              \A i \in Mismatched(possibleMatches, event) :
                  ~ MapHas(onKeyEvent(event, throwing).possibleMatches, i)

\* C19: whenever the progress table holds an entry a timer is pending.
C19_ProgressHasDeadline == possibleMatches # EmptyMap => DOMAIN activeTimers # {}

\* C20: when the last N qualifying events matched presses 1..N of a
\* binding of N presses in order, with no timer firing between them, the
\* last of them called the binding's callback, whatever came before.
C20_FullSequenceFires ==
    (last.kind = "event" /\ last.qualifying) =>
        \A i \in Bindings :
            Len(SequenceOf(i)) \in typed[i] => CallbackOf(i) \in Range(last.calls)

=============================================================================
